---- MODULE Spec2Model ----
(***************************************************************************)
(* Model of RandomNumberGenerator (src/random_number_2025.py): the three   *)
(* entropy back-ends entropy_pool, crypto_api and rdrand, their capability *)
(* tests, the range check and the range mapper.                            *)
(*                                                                         *)
(* The core is synchronous: one call runs at a time.  A call is modelled   *)
(* statement by statement wherever it talks to the operating system or the *)
(* CPU, so that the order of the checks, of the acquisitions and of the    *)
(* releases is the order of the code.  pc = "idle" means no call is        *)
(* running; outcome, retval and the per-call records then describe the     *)
(* call that ended last.                                                    *)
(*                                                                         *)
(* RandomNumberGeneratorGUI is modelled by a second specification,         *)
(* GuiSpec: the Tk main thread runs the button commands one at a time,     *)
(* each worker thread runs work() statement by statement, and the          *)
(* generator call a worker makes is one step that returns or raises.       *)
(***************************************************************************)
EXTENDS Integers, Sequences, FiniteSets, TLC

(***************************************************************************)
(* Bounds of the model (not program constants).                            *)
(***************************************************************************)
\* lo and hi are drawn from -MaxAbs .. MaxAbs
MaxAbs == 2
\* the low-order byte of a raw draw is drawn from 0 .. MaxByte
MaxByte == 5
\* the second byte of a raw draw is drawn from 0 .. MaxByte2
MaxByte2 == 1
\* number of calls made on one generator object
MaxCalls == 2
\* number of clicks that start a worker on one panel
MaxClicks == 2

(***************************************************************************)
(* Program constants.                                                      *)
(***************************************************************************)
\* retries = 10 in rdrand
retries_off == 10 + 1
retries == 10
\* os.urandom(8), CryptGenRandom(hprov, 8, buf): 8 bytes per draw
NBytes == 8
\* one byte holds 0 .. 255
ByteBase == 256

Range == (0 - MaxAbs) .. MaxAbs

(***************************************************************************)
(* struct.unpack("Q", bytes): the unsigned 64-bit value of 8 bytes in the  *)
(* native byte order, which is little-endian on x86-64: byte 1 is the      *)
(* least significant.  Evaluated from the most significant byte down.      *)
(***************************************************************************)
RECURSIVE unpack_from(_, _)
unpack_from(bytes, i) ==
    IF i > Len(bytes) THEN 0
    ELSE bytes[i] + ByteBase * unpack_from(bytes, i + 1)

unpack_Q(bytes) == unpack_from(bytes, 1)

\* the 8-byte buffers the model draws: two low bytes vary, the rest are 0
RawBytes ==
    { [i \in 1 .. NBytes |->
          IF i = 1 THEN b1 ELSE IF i = 2 THEN b2 ELSE 0] :
      b1 \in 0 .. MaxByte, b2 \in 0 .. MaxByte2 }

\* the 64-bit values the RDRAND instruction writes in the model
RawValues == { unpack_Q(b) : b \in RawBytes }

(***************************************************************************)
(* _check_range: TRUE when it raises ValueError("min must be < max").      *)
(***************************************************************************)
_check_range_strict(l, h) == l > h
_check_range(l, h) == l >= h

(***************************************************************************)
(* _map(v, lo, hi) = lo + (v % (hi - lo + 1)).  Python's % with a positive *)
(* divisor and v >= 0 is the non-negative remainder, as is TLA+'s.         *)
(***************************************************************************)
_map_wide(v, l, h) == l + (v % (h - l + 2))
_map_narrow(v, l, h) == l + (v % (h - l))
_map(v, l, h) == l + (v % (h - l + 1))

(***************************************************************************)
(* Capability tests.                                                       *)
(***************************************************************************)
supports_entropy == TRUE

supports_crypto_api(sys) == sys = "Windows"

\* IsProcessorFeaturePresent(_PF_RDRAND_AVAILABLE) is asked on Windows only
supports_rdrand(sys, feature) ==
    IF sys # "Windows" THEN FALSE ELSE feature

VARIABLES
    system,      \* platform.system() of the host; never changes
    cpuRdrand,   \* what IsProcessorFeaturePresent(33) reports; never changes
    pc,          \* position of the running call, "idle" when none runs
    backend,     \* the method called: entropy_pool, crypto_api, rdrand
    lo, hi,      \* its arguments
    outcome,     \* "none", "returned" or the error raised
    retval,      \* <<>> or <<n>>: the value returned
    rand64,      \* local rand64: <<>> while unbound, <<v>> once assigned
    pending,     \* exception in flight through the try/finally of crypto_api
    result,      \* the c_uint64 slot of rdrand
    hwLog,       \* this call's RDRAND attempts: records [cf, value]
    apiCalls,    \* this call's calls of each OS service, and successes
    ctxOpen,     \* crypto contexts acquired and not yet released
    execBlocks,  \* executable blocks allocated and not freed
    callCount,   \* calls made so far
    mainPc,      \* Tk main thread: "mainloop", or "start" inside _run
    clicked,     \* the panel whose _run the main thread is in, or "none"
    button,      \* per panel: state of its button, "normal" or "disabled"
    workers,     \* per panel: position of each worker thread started
    resultVar    \* per panel: text of its result label

vars == << system, cpuRdrand, pc, backend, lo, hi, outcome, retval, rand64,
           pending, result, hwLog, apiCalls, ctxOpen, execBlocks, callCount,
           mainPc, clicked, button, workers, resultVar >>

\* the state of the GUI
gui == << mainPc, clicked, button, workers, resultVar >>

\* the state of a direct call of the generator
core == << pc, backend, lo, hi, outcome, retval, rand64, pending, result,
           hwLog, apiCalls, ctxOpen, execBlocks, callCount >>

host == << system, cpuRdrand >>

Systems == { "Windows", "Linux" }

\* acquired and allocated count the calls of CryptAcquireContextW and of
\* VirtualAlloc that succeeded
NoCalls == [ urandom |-> 0, CryptAcquireContextW |-> 0, acquired |-> 0,
             CryptGenRandom |-> 0, CryptReleaseContext |-> 0,
             VirtualAlloc |-> 0, allocated |-> 0 ]

Init ==
    /\ system \in Systems
    /\ cpuRdrand \in BOOLEAN
    /\ pc = "idle"
    /\ backend = "none"
    /\ lo = 0
    /\ hi = 0
    /\ outcome = "none"
    /\ retval = << >>
    /\ rand64 = << >>
    /\ pending = "none"
    /\ result = 0
    /\ hwLog = << >>
    /\ apiCalls = NoCalls
    /\ ctxOpen = 0
    /\ execBlocks = 0
    /\ callCount = 0

\* a call starts: the arguments are bound and the per-call records are fresh
Enter(name, l, h) ==
    /\ pc = "idle"
    /\ callCount < MaxCalls
    /\ callCount' = callCount + 1
    /\ backend' = name
    /\ lo' = l
    /\ hi' = h
    /\ pending' = "none"
    /\ result' = 0
    /\ hwLog' = << >>

\* the call ends by raising err
Raise(err) ==
    /\ pc' = "idle"
    /\ outcome' = err
    /\ retval' = << >>

\* the call ends by returning n
Return(n) ==
    /\ pc' = "idle"
    /\ outcome' = "returned"
    /\ retval' = << n >>

\* the call goes on at position p
Goto(p) ==
    /\ pc' = p
    /\ outcome' = "none"
    /\ retval' = << >>

(***************************************************************************)
(* entropy_pool(lo, hi): range check, 8 bytes of os.urandom, unpack, map.  *)
(***************************************************************************)
entropy_pool_late_check(l, h, bytes) ==
    /\ Enter("entropy_pool", l, h)
    /\ apiCalls' = [ NoCalls EXCEPT !.urandom = 1 ]
    /\ IF _check_range(l, h)
       THEN /\ Raise("InvalidRange")
            /\ rand64' = << >>
       ELSE /\ rand64' = << unpack_Q(bytes) >>
            /\ Return(_map(unpack_Q(bytes), l, h))
    /\ UNCHANGED << gui, host, ctxOpen, execBlocks >>

entropy_pool(l, h, bytes) ==
    /\ Enter("entropy_pool", l, h)
    /\ IF _check_range(l, h)
       THEN /\ Raise("InvalidRange")
            /\ rand64' = << >>
            /\ apiCalls' = NoCalls
       ELSE /\ rand64' = << unpack_Q(bytes) >>
            /\ apiCalls' = [ NoCalls EXCEPT !.urandom = 1 ]
            /\ Return(_map(unpack_Q(bytes), l, h))
    /\ UNCHANGED << gui, host, ctxOpen, execBlocks >>

(***************************************************************************)
(* crypto_api(lo, hi), entry: the platform test, then the range check.     *)
(***************************************************************************)
crypto_api_no_platform_test(l, h) ==
    /\ Enter("crypto_api", l, h)
    /\ rand64' = << >>
    /\ apiCalls' = NoCalls
    /\ IF _check_range(l, h)
       THEN Raise("InvalidRange")
       ELSE Goto("CryptAcquireContextW")
    /\ UNCHANGED << gui, host, ctxOpen, execBlocks >>

crypto_api(l, h) ==
    /\ Enter("crypto_api", l, h)
    /\ rand64' = << >>
    /\ apiCalls' = NoCalls
    /\ IF system # "Windows"
       THEN Raise("SourceUnavailable")
       ELSE IF _check_range(l, h)
       THEN Raise("InvalidRange")
       ELSE Goto("CryptAcquireContextW")
    /\ UNCHANGED << gui, host, ctxOpen, execBlocks >>

(***************************************************************************)
(* CryptAcquireContextW(&hprov, ...): zero raises OSError at once, before  *)
(* the try block is entered.                                               *)
(***************************************************************************)
CryptAcquireContextW(ok) ==
    /\ pc = "CryptAcquireContextW"
    /\ IF ok
       THEN /\ apiCalls' = [ apiCalls EXCEPT !.CryptAcquireContextW = @ + 1,
                                              !.acquired = @ + 1 ]
            /\ ctxOpen' = ctxOpen + 1
            /\ Goto("CryptGenRandom")
       ELSE /\ apiCalls' = [ apiCalls EXCEPT !.CryptAcquireContextW = @ + 1 ]
            /\ ctxOpen' = ctxOpen
            /\ Raise("ContextAcquisitionFailed")
    /\ UNCHANGED << gui, host, backend, lo, hi, rand64, pending, result, hwLog,
                    execBlocks, callCount >>

(***************************************************************************)
(* The try block: CryptGenRandom(hprov, 8, buf); zero raises OSError,      *)
(* which the finally clause sees first; otherwise rand64 is unpacked.      *)
(***************************************************************************)
CryptGenRandom_no_finally(ok, bytes) ==
    /\ pc = "CryptGenRandom"
    /\ apiCalls' = [ apiCalls EXCEPT !.CryptGenRandom = @ + 1 ]
    /\ IF ok
       THEN /\ rand64' = << unpack_Q(bytes) >>
            /\ pending' = "none"
            /\ Goto("CryptReleaseContext")
       ELSE /\ rand64' = rand64
            /\ pending' = "none"
            /\ Raise("RandomGenerationFailed")
    /\ UNCHANGED << gui, host, backend, lo, hi, result, hwLog, ctxOpen,
                    execBlocks, callCount >>

CryptGenRandom(ok, bytes) ==
    /\ pc = "CryptGenRandom"
    /\ apiCalls' = [ apiCalls EXCEPT !.CryptGenRandom = @ + 1 ]
    /\ IF ok
       THEN /\ rand64' = << unpack_Q(bytes) >>
            /\ pending' = "none"
       ELSE /\ rand64' = rand64
            /\ pending' = "RandomGenerationFailed"
    /\ Goto("CryptReleaseContext")
    /\ UNCHANGED << gui, host, backend, lo, hi, result, hwLog, ctxOpen,
                    execBlocks, callCount >>

(***************************************************************************)
(* The finally clause: CryptReleaseContext(hprov, 0); then the exception   *)
(* in flight goes on, or the function returns _map(rand64, lo, hi).        *)
(***************************************************************************)
CryptReleaseContext ==
    /\ pc = "CryptReleaseContext"
    /\ apiCalls' = [ apiCalls EXCEPT !.CryptReleaseContext = @ + 1 ]
    /\ ctxOpen' = ctxOpen - 1
    /\ IF pending # "none"
       THEN Raise(pending)
       ELSE Return(_map(rand64[1], lo, hi))
    /\ pending' = "none"
    /\ UNCHANGED << gui, host, backend, lo, hi, rand64, result, hwLog,
                    execBlocks, callCount >>

(***************************************************************************)
(* rdrand(lo, hi), entry: the capability test, then the range check.       *)
(***************************************************************************)
rdrand(l, h) ==
    /\ Enter("rdrand", l, h)
    /\ rand64' = << >>
    /\ apiCalls' = NoCalls
    /\ IF ~ supports_rdrand(system, cpuRdrand)
       THEN Raise("SourceUnavailable")
       ELSE IF _check_range(l, h)
       THEN Raise("InvalidRange")
       ELSE Goto("_make_rdrand_asm")
    /\ UNCHANGED << gui, host, ctxOpen, execBlocks >>

(***************************************************************************)
(* _make_rdrand_asm: VirtualAlloc of an executable block; a null address   *)
(* raises OSError; otherwise the code is copied in and the block is kept   *)
(* (nothing in the program frees it).                                      *)
(***************************************************************************)
_make_rdrand_asm_unchecked(ok) ==
    /\ pc = "_make_rdrand_asm"
    /\ IF ok
       THEN /\ apiCalls' = [ apiCalls EXCEPT !.VirtualAlloc = @ + 1,
                                              !.allocated = @ + 1 ]
            /\ execBlocks' = execBlocks + 1
       ELSE /\ apiCalls' = [ apiCalls EXCEPT !.VirtualAlloc = @ + 1 ]
            /\ execBlocks' = execBlocks
    /\ Goto("rdrand64_step")
    /\ UNCHANGED << gui, host, backend, lo, hi, rand64, pending, result, hwLog,
                    ctxOpen, callCount >>

_make_rdrand_asm(ok) ==
    /\ pc = "_make_rdrand_asm"
    /\ IF ok
       THEN /\ apiCalls' = [ apiCalls EXCEPT !.VirtualAlloc = @ + 1,
                                              !.allocated = @ + 1 ]
            /\ execBlocks' = execBlocks + 1
            /\ Goto("rdrand64_step")
       ELSE /\ apiCalls' = [ apiCalls EXCEPT !.VirtualAlloc = @ + 1 ]
            /\ execBlocks' = execBlocks
            /\ Raise("AllocationFailed")
    /\ UNCHANGED << gui, host, backend, lo, hi, rand64, pending, result, hwLog,
                    ctxOpen, callCount >>

(***************************************************************************)
(* One turn of the loop: rdrand64_step(byref(result)).  The code is        *)
(*   xor rax,rax ; rdrand rax ; mov [rcx],rax ; setc al ; ret              *)
(* so the slot is written on every attempt: the drawn value when CF = 1,   *)
(* and 0 when CF = 0 (RDRAND clears its destination on failure).  On       *)
(* CF = 1 the function returns _map(result.value, lo, hi).                 *)
(***************************************************************************)
written(cf, v) == IF cf THEN v ELSE 0

rdrand64_step_stale(cf, v) ==
    /\ pc = "rdrand64_step"
    /\ Len(hwLog) < retries
    /\ hwLog' = Append(hwLog, [ cf |-> cf, value |-> written(cf, v) ])
    /\ result' = written(cf, v)
    /\ IF cf
       THEN Return(_map(result, lo, hi))
       ELSE Goto("rdrand64_step")
    /\ UNCHANGED << gui, host, backend, lo, hi, rand64, pending, apiCalls,
                    ctxOpen, execBlocks, callCount >>

rdrand64_step(cf, v) ==
    /\ pc = "rdrand64_step"
    /\ Len(hwLog) < retries
    /\ hwLog' = Append(hwLog, [ cf |-> cf, value |-> written(cf, v) ])
    /\ result' = written(cf, v)
    /\ IF cf
       THEN Return(_map(result', lo, hi))
       ELSE Goto("rdrand64_step")
    /\ UNCHANGED << gui, host, backend, lo, hi, rand64, pending, apiCalls,
                    ctxOpen, execBlocks, callCount >>

(***************************************************************************)
(* The loop ran out: raise RuntimeError("RDRAND returned CF=0 ten times"). *)
(***************************************************************************)
rdrand_exhausted_sentinel ==
    /\ pc = "rdrand64_step"
    /\ Len(hwLog) >= retries
    /\ Return(0)
    /\ UNCHANGED << gui, host, backend, lo, hi, rand64, pending, result, hwLog,
                    apiCalls, ctxOpen, execBlocks, callCount >>

rdrand_exhausted ==
    /\ pc = "rdrand64_step"
    /\ Len(hwLog) >= retries
    /\ Raise("HardwareRandomExhausted")
    /\ UNCHANGED << gui, host, backend, lo, hi, rand64, pending, result, hwLog,
                    apiCalls, ctxOpen, execBlocks, callCount >>

Next ==
    \/ \E l \in Range, h \in Range, bytes \in RawBytes : entropy_pool(l, h, bytes)
    \/ \E l \in Range, h \in Range : crypto_api(l, h)
    \/ \E ok \in BOOLEAN : CryptAcquireContextW(ok)
    \/ \E ok \in BOOLEAN, bytes \in RawBytes : CryptGenRandom(ok, bytes)
    \/ CryptReleaseContext
    \/ \E l \in Range, h \in Range : rdrand(l, h)
    \/ \E ok \in BOOLEAN : _make_rdrand_asm(ok)
    \/ \E cf \in BOOLEAN, v \in RawValues : rdrand64_step(cf, v)
    \/ rdrand_exhausted

(***************************************************************************)
(* RandomNumberGeneratorGUI.                                               *)
(* _build makes one panel per generator, with the capability test's answer *)
(* deciding whether its button starts enabled.                             *)
(***************************************************************************)
Panels == { "Entropy pool", "Windows CryptoAPI", "Intel/AMD RDRAND" }

PanelSupported(p) ==
    IF p = "Entropy pool" THEN supports_entropy
    ELSE IF p = "Windows CryptoAPI" THEN supports_crypto_api(system)
    ELSE supports_rdrand(system, cpuRdrand)

\* _make_panel: state = "normal" if supported else "disabled"; "Result:"
GuiBuilt ==
    /\ mainPc = "mainloop"
    /\ clicked = "none"
    /\ button = [ p \in Panels |->
                    IF PanelSupported(p) THEN "normal" ELSE "disabled" ]
    /\ workers = [ p \in Panels |-> << >> ]
    /\ resultVar = [ p \in Panels |-> "Result:" ]

GuiInit == Init /\ GuiBuilt

(***************************************************************************)
(* A click on the button of panel p: a ttk button runs its command only    *)
(* while it is not disabled.  The command is _run, on the main thread; its *)
(* first statement executed is button.state(["disabled"]).                 *)
(***************************************************************************)
_run_no_disable(p) ==
    /\ mainPc = "mainloop"
    /\ button[p] = "normal"
    /\ Len(workers[p]) < MaxClicks
    /\ mainPc' = "start"
    /\ clicked' = p
    /\ UNCHANGED << host, core, button, workers, resultVar >>

_run(p) ==
    /\ mainPc = "mainloop"
    /\ button[p] = "normal"
    /\ Len(workers[p]) < MaxClicks
    /\ button' = [ button EXCEPT ![p] = "disabled" ]
    /\ mainPc' = "start"
    /\ clicked' = p
    /\ UNCHANGED << host, core, workers, resultVar >>

\* threading.Thread(target=work, daemon=True).start(); _run returns
Thread_start ==
    /\ mainPc = "start"
    /\ workers' = [ workers EXCEPT ![clicked] = Append(@, "begin") ]
    /\ mainPc' = "mainloop"
    /\ clicked' = "none"
    /\ UNCHANGED << host, core, button, resultVar >>

(***************************************************************************)
(* work(), run by worker i of panel p.                                     *)
(***************************************************************************)
\* result.set("...")
work_begin(p, i) ==
    /\ workers[p][i] = "begin"
    /\ resultVar' = [ resultVar EXCEPT ![p] = "..." ]
    /\ workers' = [ workers EXCEPT ![p][i] = "call" ]
    /\ UNCHANGED << host, core, mainPc, clicked, button >>

\* val = func(min_var.get(), max_var.get()): a value, or an exception
work_call(p, i, ok) ==
    /\ workers[p][i] = "call"
    /\ workers' = [ workers EXCEPT ![p][i] = IF ok THEN "show" ELSE "except" ]
    /\ UNCHANGED << host, core, mainPc, clicked, button, resultVar >>

\* result.set(f"Result: {val}")
work_show(p, i) ==
    /\ workers[p][i] = "show"
    /\ resultVar' = [ resultVar EXCEPT ![p] = "Result: val" ]
    /\ workers' = [ workers EXCEPT ![p][i] = "finally" ]
    /\ UNCHANGED << host, core, mainPc, clicked, button >>

\* except Exception: log, messagebox.showerror, result.set("Error")
work_except(p, i) ==
    /\ workers[p][i] = "except"
    /\ resultVar' = [ resultVar EXCEPT ![p] = "Error" ]
    /\ workers' = [ workers EXCEPT ![p][i] = "finally" ]
    /\ UNCHANGED << host, core, mainPc, clicked, button >>

\* finally: button.state(["!disabled"]); work() is over
work_finally(p, i) ==
    /\ workers[p][i] = "finally"
    /\ button' = [ button EXCEPT ![p] = "normal" ]
    /\ workers' = [ workers EXCEPT ![p][i] = "done" ]
    /\ UNCHANGED << host, core, mainPc, clicked, resultVar >>

GuiNext ==
    \/ \E p \in Panels : _run(p)
    \/ Thread_start
    \/ \E p \in Panels : \E i \in 1 .. Len(workers[p]) : work_begin(p, i)
    \/ \E p \in Panels : \E i \in 1 .. Len(workers[p]) :
           \E ok \in BOOLEAN : work_call(p, i, ok)
    \/ \E p \in Panels : \E i \in 1 .. Len(workers[p]) : work_show(p, i)
    \/ \E p \in Panels : \E i \in 1 .. Len(workers[p]) : work_except(p, i)
    \/ \E p \in Panels : \E i \in 1 .. Len(workers[p]) : work_finally(p, i)

\* the generator called directly
Spec == GuiInit /\ [][Next]_vars

\* the generator behind its GUI
GuiSpec == GuiInit /\ [][GuiNext]_vars


(***************************************************************************)
(* Vocabulary of the properties.                                           *)
(***************************************************************************)
\* a call has been made and has ended
Done == pc = "idle" /\ backend # "none"

\* is_supported(backend) on this host
Supported(b) ==
    IF b = "crypto_api" THEN supports_crypto_api(system)
    ELSE IF b = "rdrand" THEN supports_rdrand(system, cpuRdrand)
    ELSE supports_entropy

\* no RDRAND attempt of this call signalled success
AllAttemptsFailed == \A i \in 1 .. Len(hwLog) : ~ hwLog[i].cf

\* the raw value the selected backend produced in this call: << >> if none
Produced ==
    IF backend = "rdrand"
    THEN IF Len(hwLog) > 0 /\ hwLog[Len(hwLog)].cf
         THEN << hwLog[Len(hwLog)].value >>
         ELSE << >>
    ELSE rand64

ErrorKinds == { "InvalidRange", "SourceUnavailable", "ContextAcquisitionFailed",
                "RandomGenerationFailed", "AllocationFailed",
                "HardwareRandomExhausted" }

(***************************************************************************)
(* C1: every value a backend returns lies in [lo, hi]: whenever            *)
(* entropy_pool, crypto_api or rdrand returned, for whatever raw value was *)
(* drawn and whatever lo < hi was given, lo <= result <= hi.               *)
(***************************************************************************)
C1_ResultInRange ==
    outcome = "returned" =>
        /\ lo < hi
        /\ Len(retval) = 1
        /\ lo <= retval[1]
        /\ retval[1] <= hi

\* rdrand returned hi itself, from a raw value larger than the range width
C1_Witness ==
    /\ Done
    /\ backend = "rdrand"
    /\ outcome = "returned"
    /\ retval = << hi >>
    /\ result > hi - lo + 1

(***************************************************************************)
(* C2 as stated: for lo >= hi every backend fails with InvalidRange on     *)
(* every host, supported or not.                                           *)
(***************************************************************************)
C2_InvalidRangeOnEveryHost ==
    (Done /\ lo >= hi) => outcome = "InvalidRange"

(***************************************************************************)
(* C2 as amended: for lo >= hi, entropy_pool on every host, and crypto_api *)
(* and rdrand on a host that supports them, fail with InvalidRange and no  *)
(* other error; on a host that does not support the backend, crypto_api    *)
(* and rdrand fail with SourceUnavailable, their capability test coming    *)
(* before the range check.                                                 *)
(***************************************************************************)
C2_InvalidRangeWhereSupported ==
    (Done /\ lo >= hi) =>
        outcome = IF Supported(backend) THEN "InvalidRange"
                  ELSE "SourceUnavailable"

\* crypto_api(lo, lo) on Windows ended with InvalidRange
C2_Witness ==
    /\ Done
    /\ backend = "crypto_api"
    /\ system = "Windows"
    /\ lo = hi
    /\ outcome = "InvalidRange"

(***************************************************************************)
(* C3: a call with lo >= hi consumes no entropy and acquires nothing: it   *)
(* never reads os.urandom, never asks for a crypto context, never          *)
(* allocates executable memory and never runs the hardware instruction.    *)
(***************************************************************************)
C3_NothingConsumedOnInvalidRange ==
    (backend # "none" /\ lo >= hi) =>
        /\ apiCalls = NoCalls
        /\ hwLog = << >>
        /\ rand64 = << >>
        /\ ctxOpen = 0
        /\ pc = "idle"

\* rdrand(lo, hi) with lo > hi was rejected on a host that has RDRAND
C3_Witness ==
    /\ Done
    /\ backend = "rdrand"
    /\ lo > hi
    /\ outcome = "InvalidRange"
    /\ supports_rdrand(system, cpuRdrand)

(***************************************************************************)
(* C4: the instruction is never invoked more than 10 times in a call; a    *)
(* call of rdrand in which it was invoked and signalled failure every time *)
(* invoked it exactly 10 times, raised HardwareRandomExhausted and         *)
(* returned nothing; and HardwareRandomExhausted is raised in no other     *)
(* case.                                                                   *)
(***************************************************************************)
C4_ExhaustedAfterTenAttempts ==
    /\ Len(hwLog) <= 10
    /\ (Done /\ backend = "rdrand" /\ Len(hwLog) >= 1 /\ AllAttemptsFailed) =>
           /\ Len(hwLog) = 10
           /\ outcome = "HardwareRandomExhausted"
           /\ retval = << >>
    /\ outcome = "HardwareRandomExhausted" =>
           /\ Len(hwLog) = 10
           /\ AllAttemptsFailed

\* ten failed attempts, then the error
C4_Witness ==
    /\ Done
    /\ Len(hwLog) = 10
    /\ AllAttemptsFailed
    /\ outcome = "HardwareRandomExhausted"

(***************************************************************************)
(* C5: in a call of rdrand every attempt but the last one signalled        *)
(* failure (so nothing is attempted after a success); an attempt that      *)
(* signals success ends the call; and when the call returned after k       *)
(* attempts, 1 <= k <= 10, attempt k signalled success and the result is   *)
(* the mapping of the value attempt k wrote.                               *)
(***************************************************************************)
C5_FirstSuccessReturned ==
    /\ \A i \in 1 .. Len(hwLog) - 1 : ~ hwLog[i].cf
    /\ (Len(hwLog) > 0 /\ hwLog[Len(hwLog)].cf) =>
           (pc = "idle" /\ outcome = "returned")
    /\ (backend = "rdrand" /\ outcome = "returned") =>
           /\ Len(hwLog) \in 1 .. 10
           /\ hwLog[Len(hwLog)].cf
           /\ retval = << _map(hwLog[Len(hwLog)].value, lo, hi) >>

\* success on attempt 7, with a result a failed attempt's 0 would not give
C5_Witness ==
    /\ Done
    /\ backend = "rdrand"
    /\ outcome = "returned"
    /\ Len(hwLog) = 7
    /\ retval # << _map(0, lo, hi) >>

(***************************************************************************)
(* C6: in crypto_api the context is released exactly once in a call that   *)
(* acquired it and never in a call that did not; no context is open once   *)
(* the call has ended, by result or by error, and none is released twice.  *)
(***************************************************************************)
C6_ContextReleasedExactlyOnce ==
    /\ ctxOpen \in { 0, 1 }
    /\ apiCalls.CryptReleaseContext <= apiCalls.acquired
    /\ pc = "idle" =>
           /\ ctxOpen = 0
           /\ apiCalls.CryptReleaseContext = apiCalls.acquired
    /\ outcome = "ContextAcquisitionFailed" =>
           /\ apiCalls.acquired = 0
           /\ apiCalls.CryptReleaseContext = 0

\* generation failed after a successful acquisition; one release was made
C6_Witness ==
    /\ Done
    /\ outcome = "RandomGenerationFailed"
    /\ apiCalls.acquired = 1
    /\ apiCalls.CryptReleaseContext = 1
    /\ ctxOpen = 0

(***************************************************************************)
(* C7: on a host where the backend is not supported, a call with lo < hi   *)
(* fails with SourceUnavailable and attempts nothing: no context is asked  *)
(* for, no executable memory is allocated, the instruction is not invoked. *)
(***************************************************************************)
C7_UnsupportedFailsUntried ==
    (backend # "none" /\ lo < hi /\ ~ Supported(backend)) =>
        /\ pc = "idle"
        /\ outcome = "SourceUnavailable"
        /\ retval = << >>
        /\ apiCalls = NoCalls
        /\ hwLog = << >>

\* rdrand on a Windows host whose CPU does not report RDRAND
C7_Witness ==
    /\ Done
    /\ backend = "rdrand"
    /\ system = "Windows"
    /\ ~ cpuRdrand
    /\ lo < hi
    /\ outcome = "SourceUnavailable"

(***************************************************************************)
(* C8: a call that has ended either returned the mapping of a raw value    *)
(* its backend produced in that call, or raised an error and returned      *)
(* nothing; a call in which the range check, the capability test, the      *)
(* context acquisition, the random generation, the allocation or all ten   *)
(* hardware attempts failed raised an error.                               *)
(***************************************************************************)
SomethingFailed ==
    \/ lo >= hi
    \/ ~ Supported(backend)
    \/ apiCalls.CryptAcquireContextW > apiCalls.acquired
    \/ (apiCalls.CryptGenRandom > 0 /\ rand64 = << >>)
    \/ apiCalls.VirtualAlloc > apiCalls.allocated
    \/ (Len(hwLog) = 10 /\ AllAttemptsFailed)

C8_ValueOrError ==
    /\ pc # "idle" => (outcome = "none" /\ retval = << >>)
    /\ Done =>
           \/ /\ outcome = "returned"
              /\ ~ SomethingFailed
              /\ Produced # << >>
              /\ retval = << _map(Produced[1], lo, hi) >>
           \/ /\ outcome \in ErrorKinds
              /\ SomethingFailed
              /\ retval = << >>

\* the allocation failed: an error, and no value
C8_Witness ==
    /\ Done
    /\ apiCalls.VirtualAlloc = 1
    /\ apiCalls.allocated = 0
    /\ outcome = "AllocationFailed"
    /\ retval = << >>

(***************************************************************************)
(* C9 as stated: the executable blocks still allocated stay bounded by a   *)
(* constant whatever the number of rdrand calls: a block freed after use   *)
(* or one block reused leaves at most one.                                 *)
(***************************************************************************)
C9_ExecBlocksBounded == execBlocks <= 1

(***************************************************************************)
(* C10: the value returned is lo + r for the one r in 0 .. hi - lo that    *)
(* differs from the raw value by a multiple of hi - lo + 1: the plain      *)
(* non-negative remainder, the same for the three backends.                *)
(***************************************************************************)
C10_PlainModulo ==
    outcome = "returned" =>
        /\ Produced # << >>
        /\ \E r \in 0 .. (hi - lo) :
               /\ (Produced[1] - r) % (hi - lo + 1) = 0
               /\ retval = << lo + r >>

\* crypto_api reduced a raw value more than twice the width to an inner value
C10_Witness ==
    /\ Done
    /\ backend = "crypto_api"
    /\ outcome = "returned"
    /\ rand64[1] > 2 * (hi - lo + 1)
    /\ retval[1] > lo
    /\ retval[1] < hi


(***************************************************************************)
(* C11: VirtualAlloc is called at most once in a call; when it returned    *)
(* null the call is over at once with AllocationFailed and no value, and   *)
(* the instruction was never invoked (the retry loop was not entered);     *)
(* AllocationFailed is raised in no other case.                            *)
(***************************************************************************)
C11_AllocationFailureIsFatal ==
    /\ apiCalls.VirtualAlloc <= 1
    /\ apiCalls.VirtualAlloc > apiCalls.allocated =>
           /\ pc = "idle"
           /\ outcome = "AllocationFailed"
           /\ retval = << >>
           /\ hwLog = << >>
    /\ outcome = "AllocationFailed" =>
           /\ backend = "rdrand"
           /\ apiCalls.VirtualAlloc = 1
           /\ apiCalls.allocated = 0
           /\ hwLog = << >>

\* rdrand with lo < hi on a host that has RDRAND; the one allocation failed
C11_Witness ==
    /\ Done
    /\ backend = "rdrand"
    /\ supports_rdrand(system, cpuRdrand)
    /\ lo < hi
    /\ outcome = "AllocationFailed"
    /\ apiCalls.VirtualAlloc = 1
    /\ hwLog = << >>
    /\ execBlocks = 0


(***************************************************************************)
(* C12: on every panel at most one worker thread is in flight (started and *)
(* not yet through the finally clause of work) at any time; the button is  *)
(* enabled only while no worker of its panel is in flight and the main     *)
(* thread is not inside _run for it; and the panel of an unsupported       *)
(* backend, whose button starts disabled, never gets a worker.             *)
(***************************************************************************)
InFlight(p) == { i \in 1 .. Len(workers[p]) : workers[p][i] # "done" }

C12_OneWorkerPerPanel ==
    \A p \in Panels :
        /\ Cardinality(InFlight(p)) <= 1
        /\ button[p] = "normal" => (InFlight(p) = { } /\ clicked # p)
        /\ clicked = p => InFlight(p) = { }
        /\ ~ PanelSupported(p) =>
               (workers[p] = << >> /\ button[p] = "disabled")

\* a second click started a worker after the first one failed and re-enabled
\* the button, while another panel's worker runs too
C12_Witness ==
    \E p \in Panels, q \in Panels :
        /\ p # q
        /\ Len(workers[p]) = 2
        /\ workers[p][1] = "done"
        /\ workers[p][2] = "call"
        /\ resultVar[p] = "..."
        /\ button[p] = "disabled"
        /\ InFlight(q) # { }

====
